---------------------------- MODULE Spec2Model ----------------------------
(***************************************************************************)
(* A model of the tw2002-client log parser (twparser.py) and of the        *)
(* port-pair search (portPairs.py).                                        *)
(*                                                                         *)
(* Text is modelled as it is in the program: a line is a sequence of byte  *)
(* values, a decoded line a sequence of code points, and the program's     *)
(* regular expressions are sequences of items run by a matcher with the    *)
(* priorities of Python's re module.                                       *)
(***************************************************************************)
EXTENDS Integers, Sequences, FiniteSets, TLC

(***************************************************************************)
(* Characters.  Ascii lists the printable ASCII characters from code 32    *)
(* to code 126 (the double quote, the backslash and the backtick under a   *)
(* name); Ord gives a character's code and S the code sequence of a text   *)
(* written as a tuple of characters.                                       *)
(***************************************************************************)
Ascii ==
  << " ", "!", "DQUOTE", "#", "$", "%", "&", "'", "(", ")", "*", "+", ",",
     "-", ".", "/", "0", "1", "2", "3", "4", "5", "6", "7", "8", "9", ":",
     ";", "<", "=", ">", "?", "@", "A", "B", "C", "D", "E", "F", "G", "H",
     "I", "J", "K", "L", "M", "N", "O", "P", "Q", "R", "S", "T", "U", "V",
     "W", "X", "Y", "Z", "[", "BACKSLASH", "]", "^", "_", "BACKTICK", "a",
     "b", "c", "d", "e", "f", "g", "h", "i", "j", "k", "l", "m", "n", "o",
     "p", "q", "r", "s", "t", "u", "v", "w", "x", "y", "z", "{", "|", "}",
     "~" >>

Ord(c) == 31 + (CHOOSE i \in 1..Len(Ascii) : Ascii[i] = c)

S(cs) == [i \in 1..Len(cs) |-> Ord(cs[i])]

Range(a, b) == Ord(a)..Ord(b)

Digits == Range("0", "9")

ESC == 27

NL == 10

\* the characters str.isspace() accepts: \t \n \v \f \r, FS GS RS US, space,
\* NEL, NBSP and the Unicode space separators
Whitespace ==
  (9..13) \cup (28..32) \cup {133, 160, 5760} \cup (8192..8202)
    \cup {8232, 8233, 8239, 8287, 12288}

MaxOf(set) == CHOOSE x \in set : \A y \in set : y <= x

MinOf(set) == CHOOSE x \in set : \A y \in set : x <= y

(***************************************************************************)
(* Regular expressions.  A pattern is the sequence of its items, so that   *)
(* concatenation is \o.  An item is a character class ("set", or "nset"    *)
(* for a class given by what it excludes), an anchor, the opening or the   *)
(* closing of a named group, a choice between patterns ("alt") or the      *)
(* repetition of a pattern of character classes ("rep").                   *)
(***************************************************************************)
Cls(set) == <<[op |-> "set", s |-> set]>>

\* a character class given by the characters it excludes
NotCls(set) == <<[op |-> "nset", s |-> set]>>

\* "." without re.DOTALL: any character but a newline
Dot == NotCls({NL})

Chr(c) == Cls({Ord(c)})

Lit(cs) == [i \in 1..Len(cs) |-> [op |-> "set", s |-> {Ord(cs[i])}]]

\* r1|r2|...
Alt(rs) == <<[op |-> "alt", rs |-> rs]>>

\* r{lo,hi}, greedy; hi = -1 stands for no upper limit
Rep(r, lo, hi) ==
  <<[op |-> "rep", r |-> r, lo |-> lo, hi |-> hi, greedy |-> TRUE]>>

Star(r) == Rep(r, 0, -1)

Plus(r) == Rep(r, 1, -1)

Opt(r) == Rep(r, 0, 1)

\* r*? : the lazy star
LazyStar(r) ==
  <<[op |-> "rep", r |-> r, lo |-> 0, hi |-> -1, greedy |-> FALSE]>>

\* r{n}: n copies of r
Times(r, n) == [j \in 1..(n * Len(r)) |-> r[((j - 1) % Len(r)) + 1]]

\* (?P<name>r)
Grp(name, r) ==
  <<[op |-> "open", name |-> name]>> \o r \o <<[op |-> "close", name |-> name]>>

\* ^
Bol == <<[op |-> "bol"]>>

\* $ : the end of the text, or the place before a newline that ends it
Eol == <<[op |-> "eol"]>>

NoMatch == [ok |-> FALSE]

\* does the character class item c accept the character at position p of s
ClassAt(c, s, p) ==
  /\ p <= Len(s)
  /\ IF c.op = "set" THEN s[p] \in c.s ELSE s[p] \notin c.s

(***************************************************************************)
(* The matcher.  k holds the items still to be matched from position i of  *)
(* s, and caps the groups opened and captured so far.  The items before    *)
(* the first choice or repetition consume one character or none each and   *)
(* are checked in place.  At a choice the alternatives are tried left to   *)
(* right; a greedy repetition takes as many rounds as the rest of the      *)
(* pattern allows and a lazy one as few: the match returned is the first   *)
(* one a backtracking search finds, which is the one re.match returns.     *)
(***************************************************************************)
RECURSIVE MatchK(_, _, _, _)

\* the last item of k before its first choice or repetition
Prefix(k) ==
  MinOf({j \in 1..Len(k) : k[j].op \in {"alt", "rep"}} \cup {Len(k) + 1}) - 1

\* the position in s that item j of k is matched at, when k starts at i
Off(k, i, j) ==
  i + Cardinality({l \in 1..(j - 1) : k[l].op \in {"set", "nset"}})

ItemAt(c, s, p) ==
  CASE c.op \in {"set", "nset"} -> ClassAt(c, s, p)
    [] c.op = "bol" -> p = 1
    [] c.op = "eol" -> p = Len(s) + 1 \/ (p = Len(s) /\ s[Len(s)] = NL)
    [] OTHER -> TRUE

\* the groups after the first m items of k: where each opened, what each
\* closed one captured
Opened(k, i, m, open) ==
  [n \in DOMAIN open \cup {k[j].name : j \in {x \in 1..m : k[x].op = "open"}} |->
     IF \E j \in 1..m : k[j].op = "open" /\ k[j].name = n
       THEN Off(k, i, CHOOSE j \in 1..m : k[j].op = "open" /\ k[j].name = n)
       ELSE open[n]]

Closed(k, s, i, m, open, grp) ==
  [n \in DOMAIN grp \cup {k[j].name : j \in {x \in 1..m : k[x].op = "close"}} |->
     IF \E j \in 1..m : k[j].op = "close" /\ k[j].name = n
       THEN SubSeq(s, open[n],
                   Off(k, i, CHOOSE j \in 1..m : k[j].op = "close" /\ k[j].name = n) - 1)
       ELSE grp[n]]

Captured(k, s, i, m, open, grp) == [open |-> open, grp |-> Closed(k, s, i, m, open, grp)]

\* the attempt of the highest rank (greedy) or of the lowest that matched
Best(tries, greedy) ==
  IF \A x \in tries : ~x.r.ok THEN NoMatch
  ELSE (CHOOSE x \in tries :
          /\ x.r.ok
          /\ \A y \in tries :
               y.r.ok => IF greedy THEN y.c <= x.c ELSE x.c <= y.c).r

\* the numbers of rounds of the repetition h that match at pos
Counts(h, s, pos, room) ==
  {c \in h.lo..(IF h.hi = -1 \/ h.hi > room THEN room ELSE h.hi) :
     \A r \in 0..(c - 1) :
       \A x \in 1..Len(h.r) : ClassAt(h.r[x], s, pos + r * Len(h.r) + x - 1)}

MatchAlt(rs, t, s, pos, caps) ==
  Best({[c |-> a, r |-> MatchK(rs[a] \o t, s, pos, caps)] : a \in 1..Len(rs)},
       FALSE)

MatchRep(h, t, s, pos, caps) ==
  Best({[c |-> c, r |-> MatchK(t, s, pos + c * Len(h.r), caps)] :
          c \in Counts(h, s, pos, (Len(s) + 1 - pos) \div Len(h.r))},
       h.greedy)

MatchRest(k, s, m, pos, caps) ==
  IF m = Len(k) THEN [ok |-> TRUE, end |-> pos, caps |-> caps.grp]
  ELSE IF k[m + 1].op = "alt"
    THEN MatchAlt(k[m + 1].rs, SubSeq(k, m + 2, Len(k)), s, pos, caps)
  ELSE MatchRep(k[m + 1], SubSeq(k, m + 2, Len(k)), s, pos, caps)

MatchPrefix(k, s, i, caps, m) ==
  IF \E j \in 1..m : ~ItemAt(k[j], s, Off(k, i, j)) THEN NoMatch
  ELSE MatchRest(k, s, m, Off(k, i, m + 1),
                 Captured(k, s, i, m, Opened(k, i, m, caps.open), caps.grp))

MatchK(k, s, i, caps) == MatchPrefix(k, s, i, caps, Prefix(k))

\* pattern.match(s) from position i on (the scan step of findall and sub)
ReMatchAt(re, s, i) == MatchK(re, s, i, [open |-> <<>>, grp |-> <<>>])

\* pattern.match(s): the match anchored at the start of s, or NoMatch
ReMatch(re, s) == ReMatchAt(re, s, 1)

(***************************************************************************)
(* The patterns of twparser.py.                                            *)
(***************************************************************************)
Sp == Chr(" ")

Dig == Cls(Digits)

\* [ 0-9], written [0-9 ] in the fighter and planet patterns
SpDig == Cls({Ord(" ")} \cup Digits)

\* \s of a str pattern: the characters str.isspace() accepts
ReSpace == Cls(Whitespace)

\* [0-9 ()>]
RouteChar == Cls(Digits \cup {Ord(" "), Ord("("), Ord(")"), Ord(">")})

\* [ 0-9]{3}[0-9]
Field4 == Times(SpDig, 3) \o Dig

\* [ 0-9]{2}[0-9]
Field3 == Times(SpDig, 2) \o Dig

\* [0-9 ]{4}[0-9]
Field5 == Times(SpDig, 4) \o Dig

\* [ -]
BuySell == Cls({Ord(" "), Ord("-")})

portListRe ==
  Bol \o Grp("sector", Field4)
    \o Sp \o Grp("ore_bs", BuySell) \o Sp \o Grp("ore_amt", Field4)
    \o Sp \o Grp("ore_pct", Field3) \o Chr("%")
    \o Sp \o Grp("org_bs", BuySell) \o Sp \o Grp("org_amt", Field4)
    \o Sp \o Grp("org_pct", Field3) \o Chr("%")
    \o Sp \o Grp("equ_bs", BuySell) \o Sp \o Grp("equ_amt", Field4)
    \o Sp \o Grp("equ_pct", Field3) \o Chr("%") \o Eol

warpListRe ==
  Bol \o Grp("sector", Field4) \o Grp("warps", Plus(Sp \o Field4)) \o Eol

routeListFromCIMRe ==
  Bol \o Lit(<<"F", "M", " ", ">", " ">>) \o Plus(Dig) \o Eol

\* "The shortest path .* from sector [0-9]+ to sector [0-9]+ is:"
ShortestPathHead ==
  Lit(<<"T", "h", "e", " ", "s", "h", "o", "r", "t", "e", "s", "t", " ",
        "p", "a", "t", "h", " ">>)
    \o Star(Dot)
    \o Lit(<<" ", "f", "r", "o", "m", " ", "s", "e", "c", "t", "o", "r", " ">>)
    \o Plus(Dig)
    \o Lit(<<" ", "t", "o", " ", "s", "e", "c", "t", "o", "r", " ">>)
    \o Plus(Dig)
    \o Lit(<<" ", "i", "s", ":">>)

routeListFromCFRe == Bol \o ShortestPathHead \o Eol

routeListRestRe ==
  Bol \o Opt(Lit(<<" ", " ", "T", "O">>)) \o Plus(RouteChar) \o Eol

routeListCompleteCIMRe ==
  Bol \o Lit(<<"F", "M", " ", ">", " ">>) \o Plus(Dig)
    \o Lit(<<" ", " ", " ", "T", "O", " ", ">", " ">>) \o Plus(Dig) \o Sp
    \o Grp("route", Plus(RouteChar)) \o Eol

routeListCompleteCFRe ==
  Bol \o ShortestPathHead \o Sp \o Grp("route", Plus(RouteChar)) \o Eol

clearFightersRe ==
  Bol \o Star(ReSpace)
    \o Lit(<<"D", "e", "p", "l", "o", "y", "e", "d", " ", " ",
             "F", "i", "g", "h", "t", "e", "r", " ", " ",
             "S", "c", "a", "n">>)

saveFightersRe ==
  Bol \o Sp \o Grp("sector", Field5) \o Plus(ReSpace) \o Plus(Dig)
    \o Plus(ReSpace)
    \o Alt(<< Lit(<<"P", "e", "r", "s", "o", "n", "a", "l">>),
              Lit(<<"C", "o", "r", "p">>) >>)
    \o Plus(ReSpace)
    \o Alt(<< Lit(<<"D", "e", "f", "e", "n", "s", "i", "v", "e">>),
              Lit(<<"O", "f", "f", "e", "n", "s", "i", "v", "e">>),
              Lit(<<"T", "o", "l", "l">>) >>)

planetListRe ==
  Bol \o Star(ReSpace) \o Grp("sector", Field5) \o Plus(ReSpace)
    \o Opt(Chr("T")) \o Plus(ReSpace) \o Chr("#") \o Grp("id", Plus(Dig))
    \o Plus(ReSpace) \o Grp("name", LazyStar(Dot)) \o Plus(ReSpace)
    \o Lit(<<"C", "l", "a", "s", "s", " ">>)
    \o Grp("class", Cls(Range("A", "Z"))) \o Lit(<<",", " ">>)
    \o Star(Dot)
    \o Grp("citadel",
           Alt(<< Lit(<<"N", "o", " ", "C", "i", "t", "a", "d", "e", "l">>),
                  Lit(<<"L", "e", "v", "e", "l", " ">>) \o Dig >>))

(***************************************************************************)
(* Text operations of the parser.                                          *)
(***************************************************************************)
\* the pattern of strip_ansi: ESC Fe (but CSI), an 8-bit Fe byte (but CSI),
\* or CSI with its parameter, intermediate and final bytes
ansi_escape_8bit ==
  Alt(<< Cls({ESC}) \o Cls((64..90) \cup (92..95)),
         Cls((128..154) \cup (156..159)),
         Alt(<<Cls({ESC}) \o Chr("["), Cls({155})>>)
           \o Star(Cls(Range("0", "?")))
           \o Star(Cls(Range(" ", "/")))
           \o Cls(Range("@", "~")) >>)

\* the positions from i on where the pattern matches a non-empty text
Hits(re, s, i) ==
  {p \in i..Len(s) : LET m == ReMatchAt(re, s, p) IN m.ok /\ m.end > p}

\* pattern.sub(b'', s) from position i on: scanning left to right, the text
\* up to the next match is kept, the match is cut out, and the scan goes on
\* behind it
RECURSIVE CutAllFrom(_, _, _)
CutAllFrom(re, s, i) ==
  LET hits == Hits(re, s, i)
  IN  IF hits = {} THEN SubSeq(s, i, Len(s))
      ELSE LET p == MinOf(hits)
           IN  SubSeq(s, i, p - 1) \o CutAllFrom(re, s, ReMatchAt(re, s, p).end)

strip_ansi(inString) == CutAllFrom(ansi_escape_8bit, inString, 1)

\* the number of bytes the UTF-8 form led by byte b takes, 0 if b leads none
Utf8Width(b) ==
  CASE b < 128 -> 1
    [] b \in 194..223 -> 2
    [] b \in 224..239 -> 3
    [] b \in 240..244 -> 4
    [] OTHER -> 0

\* is s[i] the lead byte of a well-formed UTF-8 form: its continuation bytes
\* follow, and it is no overlong form, no surrogate, nothing above U+10FFFF
Utf8FormAt(s, i) ==
  LET b == s[i]
      n == Utf8Width(b)
  IN  /\ n > 0
      /\ \A j \in 1..(n - 1) : i + j <= Len(s) /\ s[i + j] \in 128..191
      /\ b = 224 => s[i + 1] >= 160
      /\ b = 237 => s[i + 1] <= 159
      /\ b = 240 => s[i + 1] >= 144
      /\ b = 244 => s[i + 1] <= 143

\* the code point of the form led by s[i]
Utf8CodePoint(s, i) ==
  LET b == s[i]
      n == Utf8Width(b)
  IN  CASE n = 1 -> b
        [] n = 2 -> (b - 192) * 64 + (s[i + 1] - 128)
        [] n = 3 -> (b - 224) * 4096 + (s[i + 1] - 128) * 64 + (s[i + 2] - 128)
        [] n = 4 -> (b - 240) * 262144 + (s[i + 1] - 128) * 4096
                      + (s[i + 2] - 128) * 64 + (s[i + 3] - 128)

\* bytes.decode('utf-8'), strict.  The lead bytes are the bytes that are no
\* continuation bytes; the text decodes when every lead byte leads a
\* well-formed form and every continuation byte belongs to one.
decode(bytes) ==
  LET leads == {i \in 1..Len(bytes) : bytes[i] \notin 128..191}
      owned(i) == \E l \in leads : l < i /\ i < l + Utf8Width(bytes[l])
      nth(n) == CHOOSE l \in leads : Cardinality({x \in leads : x <= l}) = n
  IN  IF /\ \A l \in leads : Utf8FormAt(bytes, l)
         /\ \A i \in (1..Len(bytes)) \ leads : owned(i)
        THEN [ok |-> TRUE,
              text |-> [n \in 1..Cardinality(leads) |->
                          Utf8CodePoint(bytes, nth(n))]]
        ELSE [ok |-> FALSE]

\* str.rstrip()
rstrip(s) ==
  LET kept == {i \in 1..Len(s) : s[i] \notin Whitespace}
  IN  IF kept = {} THEN <<>> ELSE SubSeq(s, 1, MaxOf(kept))

\* str.strip()
strip(s) ==
  LET kept == {i \in 1..Len(s) : s[i] \notin Whitespace}
  IN  IF kept = {} THEN <<>> ELSE SubSeq(s, MinOf(kept), MaxOf(kept))

\* the value of a sequence of decimal digits
RECURSIVE DigitsValue(_)
DigitsValue(s) ==
  IF s = <<>> THEN 0
  ELSE 10 * DigitsValue(SubSeq(s, 1, Len(s) - 1)) + (s[Len(s)] - Ord("0"))

\* int(s) of a text of digits and spaces (all that a group of the patterns
\* can hold): whitespace around the digits is allowed, anything else is a
\* ValueError, and so is a text without a digit
int(s) ==
  LET t == strip(s)
  IN  IF t # <<>> /\ \A i \in 1..Len(t) : t[i] \in Digits
        THEN [ok |-> TRUE, v |-> DigitsValue(t)]
        ELSE [ok |-> FALSE]

\* re.findall(re, s) from position i on, for a pattern without groups
RECURSIVE FindAllFrom(_, _, _)
FindAllFrom(re, s, i) ==
  LET hits == Hits(re, s, i)
  IN  IF hits = {} THEN <<>>
      ELSE LET p == MinOf(hits)
               e == ReMatchAt(re, s, p).end
           IN  <<SubSeq(s, p, e - 1)>> \o FindAllFrom(re, s, e)

\* re.findall('[0-9]+', s)
findall_numbers(s) == FindAllFrom(Plus(Dig), s, 1)

(***************************************************************************)
(* Input lines, as the bytes read from a log file.                         *)
(***************************************************************************)
\* the header of a fighter scan
LineHeader ==
  S(<<" ", "D", "e", "p", "l", "o", "y", "e", "d", " ", " ", "F", "i", "g",
       "h", "t", "e", "r", " ", " ", "S", "c", "a", "n">>) \o <<NL>>

\* fighter rows: sector 1 and sector 2
LineFighter1 ==
  S(<<" ", " ", " ", " ", " ", "1", " ", "5", " ", "C", "o", "r", "p", " ",
       "T", "o", "l", "l">>) \o <<NL>>

\* a fighter row of sector 2
LineFighter2 ==
  S(<<" ", " ", " ", " ", " ", "2", " ", "9", " ", "P", "e", "r", "s", "o",
       "n", "a", "l", " ", "D", "e", "f", "e", "n", "s", "i", "v", "e">>) \o <<NL>>

\* warp-list rows: 1 -> 2 3, 2 -> 3, 1 -> 3
LineWarp1 ==
  S(<<" ", " ", " ", "1", " ", " ", " ", " ", "2", " ", " ", " ", " ", "3">>) \o <<NL>>

\* the warp-list row 2 -> 3
LineWarp2 ==
  S(<<" ", " ", " ", "2", " ", " ", " ", " ", "3">>) \o <<NL>>

\* the warp-list row 1 -> 3
LineWarp3 ==
  S(<<" ", " ", " ", "1", " ", " ", " ", " ", "3">>) \o <<NL>>

\* a warp-list row whose sector field is no number
LineWarpBad ==
  S(<<"1", " ", " ", "2", " ", " ", " ", " ", "3">>) \o <<NL>>

\* port rows: sector 1 (BBS), sector 1 again (SSB), sector 2 (SSB)
LinePort1 ==
  S(<<" ", " ", " ", "1", " ", "-", " ", " ", "1", "0", "0", " ", " ", "5",
       "0", "%", " ", "-", " ", " ", " ", "2", "0", " ", " ", "1", "0",
       "%", " ", " ", " ", " ", "3", "0", "0", " ", "1", "0", "0", "%">>) \o <<NL>>

\* sector 1 seen again, as SSB
LinePort1b ==
  S(<<" ", " ", " ", "1", " ", " ", " ", " ", " ", "4", "0", " ", " ", " ",
       "9", "%", " ", " ", " ", " ", " ", " ", "0", " ", " ", " ", "0",
       "%", " ", "-", " ", "2", "0", "0", "0", " ", " ", "7", "5", "%">>) \o <<NL>>

\* the port of sector 2, SSB
LinePort2 ==
  S(<<" ", " ", " ", "2", " ", " ", " ", " ", "1", "5", "0", " ", " ", "3",
       "0", "%", " ", " ", " ", " ", "5", "0", "0", " ", " ", "6", "0",
       "%", " ", "-", " ", " ", " ", "1", "0", " ", " ", " ", "5", "%">>) \o <<NL>>

\* a planet row: planet 7 in sector 3
LinePlanet ==
  S(<<" ", " ", " ", " ", "3", " ", " ", "#", "7", " ", "T", "e", "r", "r",
       "a", " ", "C", "l", "a", "s", "s", " ", "M", ",", " ", "N", "o",
       " ", "C", "i", "t", "a", "d", "e", "l">>) \o <<NL>>

\* the opening line of a CIM route report
LineFM ==
  S(<<"F", "M", " ", ">", " ", "1", "0", "0">>) \o <<NL>>

\* the continuation line of the spec's example
LineTOA ==
  S(<<" ", " ", "T", "O", " ", ">", " ", "2", "0", "0", " ", "(", "A", ")",
       " ", "1", "0", "0", " ", ">", " ", "1", "5", "0", " ", ">", " ",
       "2", "0", "0">>) \o <<NL>>

\* a continuation line: destination and route
LineTO ==
  S(<<" ", " ", "T", "O", " ", ">", " ", "2", "0", "0", " ", "1", "0", "0",
       " ", ">", " ", "1", "5", "0", " ", ">", " ", "2", "0", "0">>) \o <<NL>>

\* a complete one-line CIM route report
LineCIM ==
  S(<<"F", "M", " ", ">", " ", "1", " ", " ", " ", "T", "O", " ", ">", " ",
       "3", " ", "1", " ", ">", " ", "2", " ", ">", " ", "3">>) \o <<NL>>

\* the opening line of a course-plotter report
LineCF ==
  S(<<"T", "h", "e", " ", "s", "h", "o", "r", "t", "e", "s", "t", " ", "p",
       "a", "t", "h", " ", "(", "2", ")", " ", "f", "r", "o", "m", " ",
       "s", "e", "c", "t", "o", "r", " ", "1", " ", "t", "o", " ", "s",
       "e", "c", "t", "o", "r", " ", "3", " ", "i", "s", ":">>) \o <<NL>>

\* a complete one-line course-plotter report
LineCFRoute ==
  S(<<"T", "h", "e", " ", "s", "h", "o", "r", "t", "e", "s", "t", " ", "p",
       "a", "t", "h", " ", "(", "2", ")", " ", "f", "r", "o", "m", " ",
       "s", "e", "c", "t", "o", "r", " ", "1", " ", "t", "o", " ", "s",
       "e", "c", "t", "o", "r", " ", "3", " ", "i", "s", ":", " ", "1",
       " ", ">", " ", "2", " ", ">", " ", "3">>) \o <<NL>>

\* a line of no report
LineNoise ==
  S(<<"C", "o", "m", "m", "a", "n", "d", "?">>) \o <<NL>>

\* an empty line
LineBlank == <<NL>>

\* a line that is no UTF-8: a lone byte 0xFF
LineUndecodable == <<255, NL>>

\* the opening line FM > 100 in bold: ESC [ 1 m before, ESC [ 0 m after
LineAnsiFM ==
  <<ESC>> \o S(<<"[", "1", "m", "F", "M", " ", ">", " ", "1", "0", "0">>) \o <<ESC>> \o S(<<"[", "0", "m">>) \o <<NL>>

(***************************************************************************)
(* The input.  A run reads at most MaxLines lines, drawn from one of the   *)
(* Streams: the kinds of report one log holds.                             *)
(***************************************************************************)
MaxLines == 3

FighterStream == {LineHeader, LineFighter1, LineFighter2}

WarpStream == {LineWarp1, LineWarp2, LineWarp3}

FailureStream == {LineWarpBad, LineWarp2, LineFighter1}

PortStream == {LinePort1, LinePort1b, LinePort2}

RouteStream == {LineFM, LineTOA, LineTO, LineBlank}

MixedStream == {LinePlanet, LineCIM, LineHeader, LineWarp1}

\* a route report broken off by other output
BrokenStream == {LineAnsiFM, LineHeader, LineTO, LineNoise, LineBlank}

\* route reports of one line, and a line that does not decode
PlotterStream == {LineCF, LineCIM, LineCFRoute, LineUndecodable}

Streams ==
  {FighterStream, WarpStream, FailureStream, PortStream, RouteStream,
   MixedStream, BrokenStream, PlotterStream}

Lines == UNION Streams

(***************************************************************************)
(* Tables of what the text operations give on the input lines, so that a   *)
(* line is decoded and matched once and not in every step.  A table is a   *)
(* set of <<key, value>>; stripped and scan look a key up and fall back on *)
(* the computation itself.                                                 *)
(***************************************************************************)
Stripped(d) ==
  IF d.ok THEN [ok |-> TRUE, text |-> rstrip(d.text)] ELSE [ok |-> FALSE]

\* strip_ansi(line).decode('utf-8').rstrip(), or the decoding error
StripLine(line) == Stripped(decode(strip_ansi(line)))

\* what pattern.match(text) gives, for each pattern of the parser
Scan(text) ==
  [ clearFightersRe |-> ReMatch(clearFightersRe, text),
    saveFightersRe |-> ReMatch(saveFightersRe, text),
    warpListRe |-> ReMatch(warpListRe, text),
    portListRe |-> ReMatch(portListRe, text),
    planetListRe |-> ReMatch(planetListRe, text),
    routeListRestRe |-> ReMatch(routeListRestRe, text),
    routeListCompleteCIMRe |-> ReMatch(routeListCompleteCIMRe, text),
    routeListCompleteCFRe |-> ReMatch(routeListCompleteCFRe, text),
    routeListFromCIMRe |-> ReMatch(routeListFromCIMRe, text),
    routeListFromCFRe |-> ReMatch(routeListFromCFRe, text) ]

Find(table, key, other) ==
  IF \E e \in table : e[1] = key
    THEN (CHOOSE e \in table : e[1] = key)[2]
    ELSE other

StripTable == {<<l, StripLine(l)>> : l \in Lines}

LineScans ==
  {<<e[2].text, Scan(e[2].text)>> : e \in {x \in StripTable : x[2].ok}}

\* the route buffers one continuation line long
BufferTexts ==
  {o[1] \o S(<<" ">>) \o r[1] :
     o \in {x \in LineScans :
              x[2].routeListFromCIMRe.ok \/ x[2].routeListFromCFRe.ok},
     r \in {x \in LineScans : x[2].routeListRestRe.ok}}

ScanTable == LineScans \cup {<<t, Scan(t)>> : t \in BufferTexts}

stripped(line) == Find(StripTable, line, StripLine(line))

scan(text) == Find(ScanTable, text, Scan(text))

(***************************************************************************)
(* The store: the tables of the SQLite database.  fighters and explored    *)
(* are sets of sectors, warps a set of <<source, destination>>, ports a    *)
(* function from sector and planets a function from planet id (the         *)
(* primary keys) to the other columns of the row.                          *)
(***************************************************************************)
EmptyStore ==
  [fighters |-> {}, warps |-> {}, explored |-> {}, ports |-> <<>>,
   planets |-> <<>>]

\* the outcome of a store operation: the store it leaves, or an exception
\* raised before anything was written
Done(db) == [raised |-> FALSE, db |-> db]

Raised(db) == [raised |-> TRUE, db |-> db]

\* REPLACE INTO a table with a primary key: the row of that key is replaced
Upsert(table, key, row) ==
  [k \in DOMAIN table \cup {key} |-> IF k = key THEN row ELSE table[k]]

\* str.replace(old, new) for one-character old and new
replace(s, old, new) ==
  [i \in 1..Len(s) |-> IF s[i] = Ord(old) THEN Ord(new) ELSE s[i]]

\* a variant of clear_fighter_locations that deletes nothing
clear_fighter_locations_kept(db) == Done(db)

clear_fighter_locations(db) == Done([db EXCEPT !.fighters = {}])

save_fighter_location(db, m) ==
  LET sector == int(strip(m.sector))
  IN  IF ~sector.ok THEN Raised(db)
      ELSE Done([db EXCEPT !.fighters = @ \cup {sector.v}])

\* a variant of save_warp_list that ends its loop after the first warp
save_warp_list_first(db, m) ==
  LET sector == int(strip(m.sector))
      warps == findall_numbers(m.warps)
  IN  IF ~sector.ok THEN Raised(db)
      ELSE Done([db EXCEPT
                   !.explored = @ \cup {sector.v},
                   !.warps = @ \cup {<<sector.v, int(warps[1]).v>>}])

\* a variant of save_warp_list with the special case of lines 99-102, which
\* the code has as a comment: the row of sector 1 clears the explored list
save_warp_list_fresh(db, m) ==
  LET sector == int(strip(m.sector))
      warps == findall_numbers(m.warps)
  IN  IF ~sector.ok THEN Raised(db)
      ELSE Done([db EXCEPT
                   !.explored = IF sector.v = 1 THEN {1} ELSE @ \cup {sector.v},
                   !.warps = @ \cup {<<sector.v, int(warps[i]).v>> :
                                       i \in 1..Len(warps)}])

save_warp_list(db, m) ==
  LET sector == int(strip(m.sector))
      warps == findall_numbers(m.warps)
  IN  IF ~sector.ok THEN Raised(db)
      ELSE Done([db EXCEPT
                   !.explored = @ \cup {sector.v},
                   !.warps = @ \cup {<<sector.v, int(warps[i]).v>> :
                                       i \in 1..Len(warps)}])

\* a variant of save_port_list that keeps the row a sector already has
\* (INSERT OR IGNORE for REPLACE)
save_port_list_ignore(db, m, today) ==
  LET sector == int(strip(m.sector))
  IN  IF ~sector.ok THEN Raised(db)
      ELSE IF sector.v \in DOMAIN db.ports THEN Done(db)
      ELSE Done([db EXCEPT !.ports =
                   Upsert(@, sector.v,
                          [class |-> replace(replace(m.ore_bs \o m.org_bs \o m.equ_bs,
                                                     " ", "S"), "-", "B"),
                           ore_amt |-> int(strip(m.ore_amt)).v,
                           ore_pct |-> int(strip(m.ore_pct)).v,
                           org_amt |-> int(strip(m.org_amt)).v,
                           org_pct |-> int(strip(m.org_pct)).v,
                           equ_amt |-> int(strip(m.equ_amt)).v,
                           equ_pct |-> int(strip(m.equ_pct)).v,
                           last_seen |-> today])])

\* today stands for date('now')
save_port_list(db, m, today) ==
  LET port_class ==
        replace(replace(m.ore_bs \o m.org_bs \o m.equ_bs, " ", "S"), "-", "B")
      sector == int(strip(m.sector))
      ore_amt == int(strip(m.ore_amt))
      ore_pct == int(strip(m.ore_pct))
      org_amt == int(strip(m.org_amt))
      org_pct == int(strip(m.org_pct))
      equ_amt == int(strip(m.equ_amt))
      equ_pct == int(strip(m.equ_pct))
  IN  IF \E x \in {sector, ore_amt, ore_pct, org_amt, org_pct, equ_amt,
                   equ_pct} : ~x.ok
        THEN Raised(db)
        ELSE Done([db EXCEPT !.ports =
                     Upsert(@, sector.v,
                            [class |-> port_class,
                             ore_amt |-> ore_amt.v, ore_pct |-> ore_pct.v,
                             org_amt |-> org_amt.v, org_pct |-> org_pct.v,
                             equ_amt |-> equ_amt.v, equ_pct |-> equ_pct.v,
                             last_seen |-> today])])

save_planet_list(db, m) ==
  LET last == strip(m.citadel)[Len(strip(m.citadel))]
      citadel == IF last = Ord("l") THEN Ord("0") ELSE last
      sector == int(strip(m.sector))
      id == int(strip(m.id))
      level == int(<<citadel>>)
  IN  IF ~sector.ok \/ ~id.ok \/ ~level.ok THEN Raised(db)
      ELSE Done([db EXCEPT !.planets =
                   Upsert(@, id.v,
                          [sector |-> sector.v, name |-> strip(m.name),
                           class |-> strip(m.class), citadel |-> level.v])])

\* a variant of save_route_list that marks the sectors of the route explored
save_route_list_explored(db, m) ==
  LET route == findall_numbers(m.route)
  IN  Done([db EXCEPT
              !.explored = @ \cup {int(route[i]).v : i \in 1..Len(route)},
              !.warps =
                @ \cup {<<int(route[i]).v, int(route[i + 1]).v>> :
                          i \in 1..(Len(route) - 1)}])

save_route_list(db, m) ==
  LET route == findall_numbers(m.route)
  IN  Done([db EXCEPT !.warps =
              @ \cup {<<int(route[i]).v, int(route[i + 1]).v>> :
                        i \in 1..(Len(route) - 1)}])

\* func(*args) for a queued (func, *args)
Call(item, db, today) ==
  CASE item.func = "clear_fighter_locations" -> clear_fighter_locations(db)
    [] item.func = "save_fighter_location" ->
         save_fighter_location(db, item.args[1])
    [] item.func = "save_warp_list" -> save_warp_list(db, item.args[1])
    [] item.func = "save_port_list" -> save_port_list(db, item.args[1], today)
    [] item.func = "save_planet_list" -> save_planet_list(db, item.args[1])
    [] item.func = "save_route_list" -> save_route_list(db, item.args[1])

(***************************************************************************)
(* parse_game_line.  None, the idle value of routeList, is modelled by     *)
(* the empty text: the code only tests routeList for truth, and never      *)
(* stores an empty text in it.  The result is the items put on the queue   *)
(* and the value routeList is left with.                                   *)
(***************************************************************************)
None == <<>>

\* the tuple db_queue(func, *args) puts on the queue
Item(func, args) == [func |-> func, args |-> args]

ParseResult(puts, rl) == [puts |-> puts, routeList |-> rl]

\* if(m): db_queue(func, m)
Puts(func, m) == IF m.ok THEN <<Item(func, <<m.caps>>)>> ELSE <<>>

\* a variant of Accumulate that joins the lines without the space of line 222
Accumulate_unspaced(strippedLine, m, routeList) ==
  IF routeList = None
    THEN [text |-> strippedLine, m |-> m, routeList |-> None]
  ELSE IF Len(strippedLine) = 0
    THEN [text |-> routeList, m |-> scan(routeList), routeList |-> None]
  ELSE IF m.routeListRestRe.ok
    THEN [text |-> strippedLine, m |-> m,
          routeList |-> routeList \o strippedLine]
  ELSE [text |-> strippedLine, m |-> m, routeList |-> None]

\* a variant of Accumulate that keeps the buffer when the line is no
\* continuation (without the else of line 223)
Accumulate_kept(strippedLine, m, routeList) ==
  IF routeList = None
    THEN [text |-> strippedLine, m |-> m, routeList |-> None]
  ELSE IF Len(strippedLine) = 0
    THEN [text |-> routeList, m |-> scan(routeList), routeList |-> None]
  ELSE IF m.routeListRestRe.ok
    THEN [text |-> strippedLine, m |-> m,
          routeList |-> routeList \o S(<<" ">>) \o strippedLine]
  ELSE [text |-> strippedLine, m |-> m, routeList |-> routeList]

\* lines 216-224, the accumulator step: the text the route patterns are
\* tried on, what they give on it, and the value routeList is left with
Accumulate(strippedLine, m, routeList) ==
  IF routeList = None
    THEN [text |-> strippedLine, m |-> m, routeList |-> None]
  ELSE IF Len(strippedLine) = 0
    THEN [text |-> routeList, m |-> scan(routeList), routeList |-> None]
  ELSE IF m.routeListRestRe.ok
    THEN [text |-> strippedLine, m |-> m,
          routeList |-> routeList \o S(<<" ">>) \o strippedLine]
  ELSE [text |-> strippedLine, m |-> m, routeList |-> None]

\* lines 226-243: a complete route is queued, the start of one is kept
ParseRoute(puts, a) ==
  IF a.m.routeListCompleteCIMRe.ok
    THEN ParseResult(puts \o Puts("save_route_list", a.m.routeListCompleteCIMRe),
                     a.routeList)
  ELSE IF a.m.routeListCompleteCFRe.ok
    THEN ParseResult(puts \o Puts("save_route_list", a.m.routeListCompleteCFRe),
                     a.routeList)
  ELSE IF a.m.routeListFromCIMRe.ok \/ a.m.routeListFromCFRe.ok
    THEN ParseResult(puts, a.text)
  ELSE ParseResult(puts, a.routeList)

\* lines 187-214: the header, the fighter row, the warp row, the port row
\* and the planet row; m is what the patterns give on strippedLine
ParseLine(strippedLine, m, routeList) ==
  IF m.clearFightersRe.ok
    THEN ParseResult(<<Item("clear_fighter_locations", <<>>)>>, routeList)
  ELSE IF m.warpListRe.ok
    THEN ParseResult(Puts("save_fighter_location", m.saveFightersRe)
                       \o Puts("save_warp_list", m.warpListRe),
                     routeList)
  ELSE IF m.portListRe.ok
    THEN ParseResult(Puts("save_fighter_location", m.saveFightersRe)
                       \o Puts("save_port_list", m.portListRe),
                     routeList)
  ELSE ParseRoute(Puts("save_fighter_location", m.saveFightersRe)
                    \o Puts("save_planet_list", m.planetListRe),
                  Accumulate(strippedLine, m, routeList))

\* a variant of ParseStripped that gives the route report up on a line
\* that does not decode
ParseStripped_reset(dec, routeList) ==
  IF ~dec.ok THEN ParseResult(<<>>, None)
  ELSE ParseLine(dec.text, scan(dec.text), routeList)

\* lines 182-185: a line that does not decode is dropped
ParseStripped(dec, routeList) ==
  IF ~dec.ok THEN ParseResult(<<>>, routeList)
  ELSE ParseLine(dec.text, scan(dec.text), routeList)

parse_game_line(line, routeList) == ParseStripped(stripped(line), routeList)

(***************************************************************************)
(* The state of the parser process: the producer (the main thread, which   *)
(* parses the log and then calls quit), the consumer thread                *)
(* (dbqueue_service) and the monitor thread (dbqueue_monitor).             *)
(***************************************************************************)
VARIABLES
  stream,         \* the lines the log is drawn from
  routeList,      \* the route accumulator
  dbqueue,        \* the write queue
  QUITTING_TIME,  \* the shutdown flag
  database,       \* the store
  main_pc,        \* the producer: "parse", then "done" once quit has run
  svc_pc,         \* the consumer: "get", "call", "empty", "done"
  svc_item,       \* the (func, *args) the consumer has taken off the queue
  didWork,        \* the consumer's count of operations since the last pause
  mon_pc,         \* the monitor: "loop", "done"
  cnt,            \* the monitor's counter
  database0,      \* history: the store the run found
  consumed,       \* history: the lines parsed so far
  put,            \* history: the items put on the queue so far
  taken           \* history: the items the consumer has called, each with
                  \* its outcome and, when it raised, the queue length then

\* the state of the port-pair search (portPairs.py), which runs as a
\* process of its own on a store the parser has left
VARIABLES
  pp_pc,               \* the line main has reached, "off" when it does not run
  port_type,           \* the pattern asked for
  opposite_port_type,  \* its complement
  ports,               \* the Port objects, in the order the dict holds them
  candidates,          \* the keys of the candidates dict, in that order
  report,              \* the pairs reported so far, in order
  printed              \* what was printed of each port reported, in order

pairVars ==
  << pp_pc, port_type, opposite_port_type, ports, candidates, report,
     printed >>

parserVars ==
  << stream, routeList, dbqueue, QUITTING_TIME, database, main_pc,
     svc_pc, svc_item, didWork, mon_pc, cnt, database0, consumed, put, taken >>

vars == << parserVars, pairVars >>

\* the monitor reports the queue depth every MonitorPeriod rounds
MonitorPeriod == 10

\* the rounds the monitor makes before the shutdown flag is set
MaxRounds == 1

\* the dates a run may see: what date('now') may give
MaxDays == 2

Days == 1..MaxDays

\* the store a run may find: empty, or left by an earlier run
OldPort ==
  [class |-> S(<<"S", "S", "S">>), ore_amt |-> 7, ore_pct |-> 7,
   org_amt |-> 7, org_pct |-> 7, equ_amt |-> 7, equ_pct |-> 7,
   last_seen |-> 0]

OldStore ==
  [fighters |-> {3}, warps |-> {<<3, 1>>}, explored |-> {3},
   ports |-> Upsert(Upsert(<<>>, 1, OldPort), 3, OldPort),
   planets |-> <<>>]

Stores == {EmptyStore, OldStore}

NoItem == Item("none", <<>>)

Init ==
  /\ stream \in Streams
  /\ routeList = None
  /\ dbqueue = <<>>
  /\ QUITTING_TIME = FALSE
  /\ database \in Stores
  /\ database0 = database
  /\ main_pc = "parse"
  /\ svc_pc = "get"
  /\ svc_item = NoItem
  /\ didWork = 0
  /\ mon_pc = "loop"
  /\ cnt = 0
  /\ consumed = <<>>
  /\ put = <<>>
  /\ taken = <<>>
  /\ pp_pc = "off"
  /\ port_type = <<>>
  /\ opposite_port_type = <<>>
  /\ ports = <<>>
  /\ candidates = <<>>
  /\ report = <<>>
  /\ printed = <<>>

\* the main loop reads one more line: parse_game_line(line)
ParseGameLine ==
  /\ main_pc = "parse"
  /\ Len(consumed) < MaxLines
  /\ \E line \in stream :
       LET r == parse_game_line(line, routeList)
       IN  /\ routeList' = r.routeList
           /\ dbqueue' = dbqueue \o r.puts
           /\ put' = put \o r.puts
           /\ consumed' = Append(consumed, line)
  /\ UNCHANGED pairVars
  /\ UNCHANGED << database0, stream, QUITTING_TIME, database, main_pc, svc_pc,
                  svc_item, didWork, mon_pc, cnt, taken >>

\* the input has ended: quit() sets the shutdown flag (after telling the
\* user when the queue is not empty)
Quit ==
  /\ main_pc = "parse"
  /\ QUITTING_TIME' = TRUE
  /\ main_pc' = "done"
  /\ UNCHANGED pairVars
  /\ UNCHANGED << database0, stream, routeList, dbqueue, database, svc_pc,
                  svc_item, didWork, mon_pc, cnt, consumed, put, taken >>

\* a variant of ServiceGet that takes the item put last
ServiceGet_last ==
  /\ svc_pc = "get"
  /\ IF dbqueue # <<>>
       THEN /\ svc_item' = dbqueue[Len(dbqueue)]
            /\ dbqueue' = SubSeq(dbqueue, 1, Len(dbqueue) - 1)
            /\ svc_pc' = "call"
       ELSE /\ svc_pc' = "empty"
            /\ UNCHANGED << svc_item, dbqueue >>
  /\ UNCHANGED pairVars
  /\ UNCHANGED << database0, stream, routeList, QUITTING_TIME, database, main_pc,
                  didWork, mon_pc, cnt, consumed, put, taken >>

\* dbqueue.get(block=False): the head of the queue, or queue.Empty
ServiceGet ==
  /\ svc_pc = "get"
  /\ IF dbqueue # <<>>
       THEN /\ svc_item' = Head(dbqueue)
            /\ dbqueue' = Tail(dbqueue)
            /\ svc_pc' = "call"
       ELSE /\ svc_pc' = "empty"
            /\ UNCHANGED << svc_item, dbqueue >>
  /\ UNCHANGED pairVars
  /\ UNCHANGED << database0, stream, routeList, QUITTING_TIME, database, main_pc,
                  didWork, mon_pc, cnt, consumed, put, taken >>

\* a variant of ServiceCall without the handler of line 271: an exception
\* ends the thread
ServiceCall_uncaught ==
  /\ svc_pc = "call"
  /\ \E today \in Days :
       LET r == Call(svc_item, database, today)
       IN  /\ database' = r.db
           /\ didWork' = IF r.raised THEN didWork ELSE didWork + 1
           /\ taken' = Append(taken,
                              [item |-> svc_item, raised |-> r.raised,
                               behind |-> IF r.raised THEN Len(dbqueue) ELSE 0])
           /\ svc_pc' = IF r.raised THEN "done" ELSE "get"
  /\ svc_item' = NoItem
  /\ UNCHANGED pairVars
  /\ UNCHANGED << database0, stream, routeList, dbqueue, QUITTING_TIME, main_pc,
                  mon_pc, cnt, consumed, put >>

\* func(*args) and didWork += 1, or the exception handler of line 271,
\* which prints the trace and goes round the loop again
ServiceCall ==
  /\ svc_pc = "call"
  /\ \E today \in Days :
       LET r == Call(svc_item, database, today)
       IN  /\ database' = r.db
           /\ didWork' = IF r.raised THEN didWork ELSE didWork + 1
           /\ taken' = Append(taken,
                              [item |-> svc_item, raised |-> r.raised,
                               behind |-> IF r.raised THEN Len(dbqueue) ELSE 0])
  /\ svc_item' = NoItem
  /\ svc_pc' = "get"
  /\ UNCHANGED pairVars
  /\ UNCHANGED << database0, stream, routeList, dbqueue, QUITTING_TIME, main_pc,
                  mon_pc, cnt, consumed, put >>

\* a variant of ServiceEmpty that leaves the loop without a look at the
\* shutdown flag
ServiceEmpty_early ==
  /\ svc_pc = "empty"
  /\ didWork' = 0
  /\ svc_pc' = "done"
  /\ UNCHANGED pairVars
  /\ UNCHANGED << database0, stream, routeList, dbqueue, QUITTING_TIME, database,
                  main_pc, svc_item, mon_pc, cnt, consumed, put, taken >>

\* the handler of queue.Empty: didWork is reset (the screen flashes when
\* more than one operation was done), then the loop ends if the shutdown
\* flag is set and sleeps a second if it is not
ServiceEmpty ==
  /\ svc_pc = "empty"
  /\ didWork' = 0
  /\ svc_pc' = IF QUITTING_TIME THEN "done" ELSE "get"
  /\ UNCHANGED pairVars
  /\ UNCHANGED << database0, stream, routeList, dbqueue, QUITTING_TIME, database,
                  main_pc, svc_item, mon_pc, cnt, consumed, put, taken >>

\* a variant of Monitor that takes an item off the queue to report on it
Monitor_drain ==
  /\ mon_pc = "loop"
  /\ cnt < MaxRounds \/ QUITTING_TIME
  /\ cnt' = cnt + 1
  /\ dbqueue' = IF dbqueue # <<>> THEN Tail(dbqueue) ELSE dbqueue
  /\ mon_pc' = IF QUITTING_TIME THEN "done" ELSE "loop"
  /\ UNCHANGED pairVars
  /\ UNCHANGED << database0, stream, routeList, QUITTING_TIME, database,
                  main_pc, svc_pc, svc_item, didWork, consumed, put, taken >>

\* one round of dbqueue_monitor: count, report dbqueue.qsize() every
\* MonitorPeriod rounds (the report is output and changes no state), end if
\* the shutdown flag is set, sleep if not
Monitor ==
  /\ mon_pc = "loop"
  /\ cnt < MaxRounds \/ QUITTING_TIME
  /\ cnt' = cnt + 1
  /\ mon_pc' = IF QUITTING_TIME THEN "done" ELSE "loop"
  /\ UNCHANGED pairVars
  /\ UNCHANGED << database0, stream, routeList, dbqueue, QUITTING_TIME, database,
                  main_pc, svc_pc, svc_item, didWork, consumed, put, taken >>

Next ==
  \/ ParseGameLine
  \/ Quit
  \/ ServiceGet
  \/ ServiceCall
  \/ ServiceEmpty
  \/ Monitor

Spec == Init /\ [][Next]_vars

\* the consumer and the monitor are threads of their own (lines 347-352):
\* each goes on running, and its sleep of a second ends.  The last conjunct
\* is the weak fairness of ServiceCall written out (ServiceCall is enabled
\* exactly while svc_pc = "call", and every step of it leaves "call"): the
\* operation called returns or raises.
FairSpec ==
  /\ Spec
  /\ WF_vars(ServiceGet)
  /\ WF_vars(ServiceEmpty)
  /\ WF_vars(Monitor)
  /\ []<>(svc_pc # "call")

(***************************************************************************)
(* portPairs.py: the port-pair search.  main runs on the store of a        *)
(* finished parser run.  The rows of a SELECT without ORDER BY come in an  *)
(* order SQL leaves open: any order is taken.                              *)
(***************************************************************************)
\* str.upper()
upper(s) ==
  [i \in 1..Len(s) |-> IF s[i] \in Range("a", "z") THEN s[i] - 32 ELSE s[i]]

\* a variant of opposite without the intermediate letter
opposite_direct(pt) == replace(replace(pt, "B", "S"), "S", "B")

\* line 63: port_type.replace("B", "T").replace("S", "B").replace("T", "S")
opposite(pt) == replace(replace(replace(pt, "B", "T"), "S", "B"), "T", "S")

\* lines 65-66: the pattern "^" + pt.replace("?", ".") + "$"
type_regex(pt) ==
  Bol \o [i \in 1..Len(pt) |->
            IF pt[i] = Ord("?") THEN Dot[1] ELSE Cls({pt[i]})[1]]
      \o Eol

\* re.match(regex, text) taken as a truth value
re_match(regex, text) == ReMatch(regex, text).ok

\* Port(row): the object made of a row of the ports table
Port(sector, row) ==
  [sector |-> sector, port_class |-> row.class,
   ore_amt |-> row.ore_amt, ore_pct |-> row.ore_pct,
   org_amt |-> row.org_amt, org_pct |-> row.org_pct,
   equ_amt |-> row.equ_amt, equ_pct |-> row.equ_pct,
   last_seen |-> row.last_seen, warps |-> <<>>]

\* a variant of port_score that counts every position
port_score_all(portA, portB, pt) ==
  << portA.ore_pct + portB.ore_pct + portA.org_pct + portB.org_pct
       + portA.equ_pct + portB.equ_pct,
     portA.ore_amt + portB.ore_amt + portA.org_amt + portB.org_amt
       + portA.equ_amt + portB.equ_amt >>

port_score(portA, portB, pt) ==
  << (IF pt[1] # Ord("?") THEN portA.ore_pct + portB.ore_pct ELSE 0)
       + (IF pt[2] # Ord("?") THEN portA.org_pct + portB.org_pct ELSE 0)
       + (IF pt[3] # Ord("?") THEN portA.equ_pct + portB.equ_pct ELSE 0),
     (IF pt[1] # Ord("?") THEN portA.ore_amt + portB.ore_amt ELSE 0)
       + (IF pt[2] # Ord("?") THEN portA.org_amt + portB.org_amt ELSE 0)
       + (IF pt[3] # Ord("?") THEN portA.equ_amt + portB.equ_amt ELSE 0) >>

\* the order of Python's tuples of two integers
TupleLess(a, b) == a[1] < b[1] \/ (a[1] = b[1] /\ a[2] < b[2])

\* sorted(seq, key=...), keys[i] being the key of seq[i]: ascending, and
\* stable
sorted(seq, keys) ==
  [r \in 1..Len(seq) |->
     seq[CHOOSE i \in 1..Len(seq) :
           r = 1 + Cardinality({j \in 1..Len(seq) :
                                  \/ TupleLess(keys[j], keys[i])
                                  \/ keys[j] = keys[i] /\ j < i})]]

\* the orders the members of a set may come in
Perms(set) ==
  {f \in [1..Cardinality(set) -> set] : \A x \in set : \E i \in DOMAIN f : f[i] = x}

\* sector in ports
HasPort(ps, sector) == \E i \in 1..Len(ps) : ps[i].sector = sector

\* ports[sector]
PortOf(ps, sector) == ps[CHOOSE i \in 1..Len(ps) : ps[i].sector = sector]

\* lines 76-79 for one sector: the destinations of its warps that hold a
\* port, in the order of the rows
Neighbors(sector, ps, warpRows) ==
  [i \in 1..Len(SelectSeq(warpRows,
                          LAMBDA w : w[1] = sector /\ HasPort(ps, w[2]))) |->
     SelectSeq(warpRows, LAMBDA w : w[1] = sector /\ HasPort(ps, w[2]))[i][2]]

\* lines 70-80: the ports in the order of the rows, each with its neighbors
LoadedPorts(table, rows, warpRows) ==
  [i \in 1..Len(rows) |->
     [Port(rows[i], table[rows[i]]) EXCEPT
        !.warps = Neighbors(rows[i],
                            [j \in 1..Len(rows) |-> Port(rows[j], table[rows[j]])],
                            warpRows)]]

\* a variant of CandidateKey that keeps the order the pair was found in
CandidateKey_found(sector, warp) == <<sector, warp>>

\* line 94: tuple(sorted([sector, warp]))
CandidateKey(sector, warp) ==
  IF sector <= warp THEN <<sector, warp>> ELSE <<warp, sector>>

\* the key that port i and its neighbor j give
HitKey(ps, h) == CandidateKey(ps[h[1]].sector, ps[h[1]].warps[h[2]])

\* lines 86-94: the <<i, j>> for which the loops reach line 94
CandidateHits(ps, pt, opt) ==
  {h \in UNION {{<<i, j>> : j \in 1..Len(ps[i].warps)} : i \in 1..Len(ps)} :
     /\ re_match(type_regex(pt), ps[h[1]].port_class)
     /\ re_match(type_regex(opt),
                 PortOf(ps, ps[h[1]].warps[h[2]]).port_class)}

\* the keys of a dict in the order they were first set
KeysInOrder(ps, firsts) ==
  [r \in 1..Cardinality(firsts) |->
     HitKey(ps, CHOOSE h \in firsts :
                  r = 1 + Cardinality({g \in firsts : TupleLess(g, h)}))]

FirstHits(ps, hits) ==
  {h \in hits : \A g \in hits : HitKey(ps, g) = HitKey(ps, h) => ~TupleLess(g, h)}

\* lines 84-94: the keys of candidates
Candidates(ps, pt, opt) ==
  KeysInOrder(ps, FirstHits(ps, CandidateHits(ps, pt, opt)))

\* line 102: sorted(candidates.keys(), key=lambda a_b: port_score(...))
SortedCandidates(keys, ps, pt) ==
  sorted(keys,
         [i \in 1..Len(keys) |->
            port_score(PortOf(ps, keys[i][1]), PortOf(ps, keys[i][2]), pt)])

(***************************************************************************)
(* The route planner, twpath.  Its code is not among the sources: it is    *)
(* modelled from section 4.4 of the specification.  Every warp costs one   *)
(* hop, so the search goes out from the target one hop at a time, against  *)
(* the warps when reverse is set and along them when it is not.            *)
(***************************************************************************)
\* "all fighter sectors"
fighter_locations(db) == db.fighters

\* the sectors that are "a known warp destination but not yet in the
\* Explored set"
blind_warps(db) == {w[2] : w \in db.warps} \ db.explored

\* the sectors one hop from x
Near(x, warps, reverse) ==
  IF reverse THEN {w[1] : w \in {v \in warps : v[2] = x}}
             ELSE {w[2] : w \in {v \in warps : v[1] = x}}

\* the hop count of every sector the search reaches: dist holds the
\* sectors found so far, frontier those found d hops from the target
RECURSIVE Hops(_, _, _, _, _)
Hops(dist, frontier, d, warps, reverse) ==
  IF frontier = {} THEN dist
  ELSE Hops(dist @@ [x \in (UNION {Near(y, warps, reverse) : y \in frontier})
                              \ DOMAIN dist |-> d + 1],
            (UNION {Near(y, warps, reverse) : y \in frontier}) \ DOMAIN dist,
            d + 1, warps, reverse)

\* the paths dist leads to: from a source of the least hop count, each
\* step one hop nearer the target; the path of no sector when no source is
\* reached ("no path")
PathsBy(dist, target, sources, warps, reverse) ==
  IF sources \cap DOMAIN dist = {} THEN {<<>>}
  ELSE LET n == MinOf({dist[s] : s \in sources \cap DOMAIN dist})
       IN  {p \in [1..(n + 1) -> DOMAIN dist] :
              /\ p[1] \in sources
              /\ p[n + 1] = target
              /\ \A i \in 1..(n + 1) : dist[p[i]] = n + 1 - i
              /\ \A i \in 1..n : p[i] \in Near(p[i + 1], warps, reverse)}

\* dijkstra(target, sources, reverse)[0]: the paths it may return, "an
\* ordered sequence of sector identifiers from nearest source to target
\* inclusive"; which of several of equal length is left open
dijkstra(target, sources, warps, reverse) ==
  PathsBy(Hops(target :> 0, {target}, 0, warps, reverse), target, sources,
          warps, reverse)

\* a variant of PortReport that asks for the routes with reverse=False
PortReport_forward(p, db) ==
  {[sector |-> p, fRoute |-> f, direct |-> ~(Len(f) > 1),
    bRoute |-> b, blind |-> Len(b) < Len(f)] :
     f \in dijkstra(p, fighter_locations(db), db.warps, FALSE),
     b \in dijkstra(p, blind_warps(db), db.warps, FALSE)}

\* lines 104-112 for the port of sector p, what may be printed: the
\* sector, the route from the nearest fighter, whether DIRECT is printed in
\* its place, the route from the nearest blind warp and whether that one
\* is printed
PortReport(p, db) ==
  {[sector |-> p, fRoute |-> f, direct |-> ~(Len(f) > 1),
    bRoute |-> b, blind |-> Len(b) < Len(f)] :
     f \in dijkstra(p, fighter_locations(db), db.warps, TRUE),
     b \in dijkstra(p, blind_warps(db), db.warps, TRUE)}

\* the sectors and the warps of the stores the search is run on
MaxSectors == 3

MaxWarps == 2

Sectors == 1..MaxSectors

PortRow(class, ore, org, equ) ==
  [class |-> class, ore_amt |-> ore[1], ore_pct |-> ore[2],
   org_amt |-> org[1], org_pct |-> org[2],
   equ_amt |-> equ[1], equ_pct |-> equ[2], last_seen |-> 1]

\* the rows a sector may have in the ports table
PortKinds ==
  { PortRow(S(<<"B", "B", "S">>), <<100, 50>>, <<20, 10>>, <<30, 100>>),
    PortRow(S(<<"S", "S", "B">>), <<40, 9>>, <<0, 0>>, <<2000, 75>>),
    PortRow(S(<<"S", "S", "B">>), <<41, 9>>, <<1, 0>>, <<1998, 75>>) }

PortTables == UNION {[d -> PortKinds] : d \in SUBSET Sectors}

\* the warp tables: up to MaxWarps warps, none from a sector to itself
WarpSets ==
  {w \in SUBSET {p \in Sectors \X Sectors : p[1] # p[2]} :
     Cardinality(w) <= MaxWarps}

PairStores ==
  {[EmptyStore EXCEPT !.ports = t, !.warps = w] : t \in PortTables, w \in WarpSets}

\* the values of --port-type: the patterns over B, S and ?, and one in
\* small letters
PortTypes ==
  [1..3 -> {Ord("B"), Ord("S"), Ord("?")}] \cup {S(<<"?", "b", "s">>)}

InitPairs ==
  /\ stream = {}
  /\ routeList = None
  /\ dbqueue = <<>>
  /\ QUITTING_TIME = TRUE
  /\ database \in PairStores
  /\ main_pc = "done"
  /\ svc_pc = "done"
  /\ svc_item = NoItem
  /\ didWork = 0
  /\ mon_pc = "done"
  /\ cnt = 0
  /\ database0 = database
  /\ consumed = <<>>
  /\ put = <<>>
  /\ taken = <<>>
  /\ pp_pc = "main"
  /\ port_type \in PortTypes
  /\ opposite_port_type = <<>>
  /\ ports = <<>>
  /\ candidates = <<>>
  /\ report = <<>>
  /\ printed = <<>>

\* lines 62-66: the pattern in capitals and its complement
ComplementType ==
  /\ pp_pc = "main"
  /\ port_type' = upper(port_type)
  /\ opposite_port_type' = opposite(upper(port_type))
  /\ pp_pc' = "load"
  /\ UNCHANGED << ports, candidates, report, printed >>
  /\ UNCHANGED parserVars

\* lines 70-80: the ports and their neighbors are read from the store
LoadPorts ==
  /\ pp_pc = "load"
  /\ \E rows \in Perms(DOMAIN database.ports), warpRows \in Perms(database.warps) :
       ports' = LoadedPorts(database.ports, rows, warpRows)
  /\ pp_pc' = "candidates"
  /\ UNCHANGED << port_type, opposite_port_type, candidates, report, printed >>
  /\ UNCHANGED parserVars

\* lines 84-94
FindCandidates ==
  /\ pp_pc = "candidates"
  /\ candidates' = Candidates(ports, port_type, opposite_port_type)
  /\ pp_pc' = "report"
  /\ UNCHANGED << port_type, opposite_port_type, ports, report, printed >>
  /\ UNCHANGED parserVars

\* lines 102-112: one round of the loop over the sorted candidates reports
\* the next pair
Report ==
  /\ pp_pc = "report"
  /\ Len(report) < Len(candidates)
  /\ report' = Append(report,
                      SortedCandidates(candidates, ports, port_type)[Len(report) + 1])
  /\ \E first \in PortReport(report'[Len(report')][1], database),
        second \in PortReport(report'[Len(report')][2], database) :
       printed' = printed \o <<first, second>>
  /\ UNCHANGED << pp_pc, port_type, opposite_port_type, ports, candidates >>
  /\ UNCHANGED parserVars

\* the loop has ended
ReportEnd ==
  /\ pp_pc = "report"
  /\ Len(report) = Len(candidates)
  /\ pp_pc' = "done"
  /\ UNCHANGED << port_type, opposite_port_type, ports, candidates, report,
                  printed >>
  /\ UNCHANGED parserVars

NextPairs ==
  \/ ComplementType
  \/ LoadPorts
  \/ FindCandidates
  \/ Report
  \/ ReportEnd

SpecPairs == InitPairs /\ [][NextPairs]_vars

\* the search on stores that hold fighters and explored sectors as well: a
\* port in any of the sectors, the warp tables of above and the one of
\* 1 -> 2, 2 -> 3 and 1 -> 3, and a pattern that every port matches
InitRoutes ==
  /\ stream = {}
  /\ routeList = None
  /\ dbqueue = <<>>
  /\ QUITTING_TIME = TRUE
  /\ \E d \in SUBSET Sectors, w \in WarpSets \cup {{<<1, 2>>, <<2, 3>>, <<1, 3>>}},
        f \in SUBSET Sectors, e \in SUBSET Sectors :
       database =
         [fighters |-> f, warps |-> w, explored |-> e,
          ports |-> [s \in d |-> PortRow(S(<<"B", "B", "S">>), <<100, 50>>,
                                         <<20, 10>>, <<30, 100>>)],
          planets |-> <<>>]
  /\ main_pc = "done"
  /\ svc_pc = "done"
  /\ svc_item = NoItem
  /\ didWork = 0
  /\ mon_pc = "done"
  /\ cnt = 0
  /\ database0 = database
  /\ consumed = <<>>
  /\ put = <<>>
  /\ taken = <<>>
  /\ pp_pc = "main"
  /\ port_type = S(<<"?", "?", "?">>)
  /\ opposite_port_type = <<>>
  /\ ports = <<>>
  /\ candidates = <<>>
  /\ report = <<>>
  /\ printed = <<>>

SpecRoutes == InitRoutes /\ [][NextPairs]_vars

(***************************************************************************)
(* Properties of the parser process.                                       *)
(***************************************************************************)
\* every item put on the queue has been called
Drained == dbqueue = <<>> /\ svc_pc # "call"

\* C1: the consumer never leaves its loop while the queue is non-empty:
\* every operation enqueued before the shutdown flag was set has been
\* applied by the time dbqueue_service exits
C1_DrainedAtExit == svc_pc = "done" => dbqueue = <<>>

(***************************************************************************)
(* What the input lines say, read off the lines themselves: the sector of  *)
(* a fighter row, the warps of a warp row, the record of a port row.       *)
(***************************************************************************)
FighterSectors == (LineFighter1 :> 1) @@ (LineFighter2 :> 2)

WarpPairs ==
  (LineWarp1 :> {<<1, 2>>, <<1, 3>>}) @@ (LineWarp2 :> {<<2, 3>>})
    @@ (LineWarp3 :> {<<1, 3>>})

PortRows ==
  (LinePort1 :> [sector |-> 1, class |-> S(<<"B", "B", "S">>),
                 ore_amt |-> 100, ore_pct |-> 50, org_amt |-> 20,
                 org_pct |-> 10, equ_amt |-> 300, equ_pct |-> 100])
    @@ (LinePort1b :> [sector |-> 1, class |-> S(<<"S", "S", "B">>),
                       ore_amt |-> 40, ore_pct |-> 9, org_amt |-> 0,
                       org_pct |-> 0, equ_amt |-> 2000, equ_pct |-> 75])
    @@ (LinePort2 :> [sector |-> 2, class |-> S(<<"S", "S", "B">>),
                      ore_amt |-> 150, ore_pct |-> 30, org_amt |-> 500,
                      org_pct |-> 60, equ_amt |-> 10, equ_pct |-> 5])

\* the port record a row read on the given day leaves
PortRecord(line, day) ==
  [class |-> PortRows[line].class,
   ore_amt |-> PortRows[line].ore_amt, ore_pct |-> PortRows[line].ore_pct,
   org_amt |-> PortRows[line].org_amt, org_pct |-> PortRows[line].org_pct,
   equ_amt |-> PortRows[line].equ_amt, equ_pct |-> PortRows[line].equ_pct,
   last_seen |-> day]

\* the lines parsed so far are all of one kind
AllIn(rows) == \A i \in 1..Len(consumed) : consumed[i] \in rows

HeadersSeen == {i \in 1..Len(consumed) : consumed[i] = LineHeader}

\* C2: once every queued operation is applied, the fighter set is exactly
\* the set of sectors of the fighter rows read after the most recent
\* fighter-scan header (empty when no row followed it), whatever the store
\* held before
C2_FightersSinceHeader ==
  (Drained /\ HeadersSeen # {}) =>
    database.fighters =
      {FighterSectors[consumed[i]] :
         i \in {j \in (MaxOf(HeadersSeen) + 1)..Len(consumed) :
                  consumed[j] \in DOMAIN FighterSectors}}

\* a row, the header, another row, all applied to a store that held a third
C2_Witness ==
  /\ Drained
  /\ consumed = <<LineFighter2, LineHeader, LineFighter1>>
  /\ database0.fighters = {3}
  /\ database.fighters = {1}

\* C3: for every sequence of warp rows, once every queued operation is
\* applied the warps are the warps the store held and the union of the
\* pairs of the rows: the order of the rows and their repetition do not
\* matter
C3_WarpsAreUnion ==
  (Drained /\ AllIn(DOMAIN WarpPairs)) =>
    database.warps =
      database0.warps \cup UNION {WarpPairs[consumed[i]] : i \in 1..Len(consumed)}

\* a row read twice with another one between, on a store that held a warp
C3_Witness ==
  /\ Drained
  /\ consumed = <<LineWarp2, LineWarp1, LineWarp2>>
  /\ database.warps = {<<3, 1>>, <<1, 2>>, <<1, 3>>, <<2, 3>>}

\* C4 (as amended): from an idle accumulator the lines "FM > 100",
\* "  TO > 200 100 > 150 > 200" and a blank line, once applied, add the
\* warps 100->150 and 150->200 and no other
C4_RouteRecorded ==
  (Drained /\ consumed = <<LineFM, LineTO, LineBlank>>) =>
    database.warps = database0.warps \cup {<<100, 150>>, <<150, 200>>}

C4_Witness ==
  /\ Drained
  /\ consumed = <<LineFM, LineTO, LineBlank>>
  /\ {<<100, 150>>, <<150, 200>>} \subseteq database.warps

\* C4 (as stated): the lines "FM > 100", "  TO > 200 (A) 100 > 150 > 200"
\* and a blank line, once applied, record the warps 100->150 and 150->200
C4_RouteRecordedAsStated ==
  (Drained /\ consumed = <<LineFM, LineTOA, LineBlank>>) =>
    {<<100, 150>>, <<150, 200>>} \subseteq database.warps

\* C5: once every queued operation is applied, the port record of a sector
\* is the whole record of the most recent port row about it, dated the day
\* it was applied, with no field of an earlier record; the record of a
\* sector no row was about is the one the store held
C5_PortIsLastObservation ==
  (Drained /\ AllIn(DOMAIN PortRows)) =>
    /\ DOMAIN database.ports =
         DOMAIN database0.ports
           \cup {PortRows[consumed[i]].sector : i \in 1..Len(consumed)}
    /\ \A s \in DOMAIN database.ports :
         LET seen == {i \in 1..Len(consumed) : PortRows[consumed[i]].sector = s}
         IN  IF seen = {} THEN database.ports[s] = database0.ports[s]
             ELSE \E day \in Days :
                    database.ports[s] = PortRecord(consumed[MaxOf(seen)], day)

\* sector 1 observed twice with different values, sector 2 once, on a store
\* that held records of sectors 1 and 3
C5_Witness ==
  /\ Drained
  /\ consumed = <<LinePort1, LinePort2, LinePort1b>>
  /\ database0 = OldStore
  /\ database.ports[1].equ_amt = 2000
  /\ database.ports[3] = OldPort

\* C6: no step of the pipeline removes a warp or an explored sector
C6_WarpsAndExploredGrow ==
  [][/\ database.warps \subseteq database'.warps
     /\ database.explored \subseteq database'.explored]_vars

\* a warp row, a route and a fighter-scan header applied to a store that
\* held a fighter, a warp and an explored sector
C6_Witness ==
  /\ Drained
  /\ consumed = <<LineWarp1, LineCIM, LineHeader>>
  /\ database0 = OldStore
  /\ database.fighters = {}
  /\ database.warps = {<<3, 1>>, <<1, 2>>, <<1, 3>>, <<2, 3>>}
  /\ database.explored = {1, 3}

\* C7: an operation that raises does not end the consumer: the operations
\* are called in the order they were put, the consumer leaves its loop only
\* on an empty queue with the shutdown flag set, and when it has left it
\* every operation that was queued behind one that raised has been called
C7_ConsumerSurvives ==
  /\ Len(taken) <= Len(put)
  /\ \A i \in 1..Len(taken) : taken[i].item = put[i]
  /\ svc_pc = "done" =>
       /\ QUITTING_TIME
       /\ \A f \in 1..Len(taken) :
            taken[f].raised => Len(taken) >= f + taken[f].behind

\* the consumer has left its loop after an operation raised with another
\* one queued behind it, which was called and did not raise
C7_Witness ==
  /\ svc_pc = "done"
  /\ dbqueue = <<>>
  /\ \E f \in 1..(Len(taken) - 1) :
       /\ taken[f].raised
       /\ taken[f].behind >= 1
       /\ ~taken[f + 1].raised

\* C16: the store is changed only by the consumer, one operation at a
\* time, and only the consumer takes items off the queue; the producer only
\* appends items to the queue, and the monitor changes neither the queue nor
\* the store
C16_SingleWriter ==
  [][/\ database' # database =>
          /\ svc_pc = "call" /\ svc_pc' = "get"
          /\ taken' = Append(taken, taken'[Len(taken')])
          /\ taken'[Len(taken')].item = svc_item
          /\ UNCHANGED << consumed, main_pc, cnt, mon_pc, dbqueue >>
     /\ Len(dbqueue') < Len(dbqueue) =>
          /\ svc_pc = "get" /\ svc_pc' = "call"
          /\ dbqueue' = Tail(dbqueue)
          /\ UNCHANGED << consumed, main_pc, cnt, mon_pc, database >>
     /\ (consumed' # consumed \/ main_pc' # main_pc) =>
          /\ Len(dbqueue') >= Len(dbqueue)
          /\ SubSeq(dbqueue', 1, Len(dbqueue)) = dbqueue
          /\ UNCHANGED << database, svc_pc, svc_item, taken >>
     /\ (cnt' # cnt \/ mon_pc' # mon_pc) =>
          UNCHANGED << database, dbqueue, svc_pc, svc_item, taken >>]_vars

\* the producer has put operations on the queue, the consumer has changed
\* the store and the monitor has made a round
C16_Witness ==
  /\ Len(put) >= 2
  /\ database # database0
  /\ cnt >= 1
  /\ dbqueue # <<>>

\* C17: once the shutdown flag is set, the consumer and the monitor both
\* leave their loops in the end (the threads being scheduled fairly); the
\* consumer leaves only from the handler of queue.Empty, when its last get
\* found the queue empty; and no loop is left before the flag is set
C17_LoopsExit ==
  /\ [](svc_pc = "done" \/ mon_pc = "done" => QUITTING_TIME)
  /\ [][svc_pc # "done" /\ svc_pc' = "done" => svc_pc = "empty"]_vars
  /\ (QUITTING_TIME ~> (svc_pc = "done" /\ mon_pc = "done"))

\* both loops have been left, after the consumer called an operation
C17_Witness ==
  /\ QUITTING_TIME
  /\ svc_pc = "done"
  /\ mon_pc = "done"
  /\ taken # <<>>

\* C19: the operations are called in the order they were put, each at most
\* once: the operations put so far are those called, in the order of the
\* calls, then the one being called, then those still queued
C19_AppliedInOrder ==
  put = [i \in 1..Len(taken) |-> taken[i].item]
          \o (IF svc_pc = "call" THEN <<svc_item>> ELSE <<>>)
          \o dbqueue

\* the clearing of the fighters was put before a fighter row and called
\* before it
C19_Witness ==
  /\ Len(put) = 2
  /\ put[1].func = "clear_fighter_locations"
  /\ put[2].func = "save_fighter_location"
  /\ Len(taken) = 2
  /\ taken[1].item.func = "clear_fighter_locations"
  /\ taken[2].item.func = "save_fighter_location"

\* the operations called so far that did not raise
Applied(func) ==
  {i \in 1..Len(taken) : taken[i].item.func = func /\ ~taken[i].raised}

\* the source sector of a warp row, by the text of its sector field
RowSource ==
  (S(<<" ", " ", " ", "1">>) :> 1) @@ (S(<<" ", " ", " ", "2">>) :> 2)

\* the warps of a warp row, by the text of its warps field
RowWarps ==
  (S(<<" ", " ", " ", " ", "2", " ", " ", " ", " ", "3">>) :> {2, 3})
    @@ (S(<<" ", " ", " ", " ", "3">>) :> {3})

\* the consecutive pairs of a route, by its text
RoutePairs ==
  (S(<<"1", " ", ">", " ", "2", " ", ">", " ", "3">>) :> {<<1, 2>>, <<2, 3>>})
    @@ (S(<<"1", "0", "0", " ", ">", " ", "1", "5", "0", " ", ">", " ", "2",
           "0", "0">>) :> {<<100, 150>>, <<150, 200>>})

\* C20: on a store that was empty, the explored sectors are the source
\* sectors of the warp rows applied, and the warps are those of the warp
\* rows applied and the consecutive pairs of the routes applied: a route
\* adds its warps and no explored sector
C20_ExploredFromWarpRows ==
  database0 = EmptyStore =>
    /\ database.explored =
         {RowSource[taken[i].item.args[1].sector] : i \in Applied("save_warp_list")}
    /\ database.warps =
         UNION ({ {<<RowSource[taken[i].item.args[1].sector], d>> :
                     d \in RowWarps[taken[i].item.args[1].warps]} :
                  i \in Applied("save_warp_list") }
                \cup {RoutePairs[taken[i].item.args[1].route] :
                        i \in Applied("save_route_list")})

\* a route and a warp row applied to an empty store
C20_Witness ==
  /\ database0 = EmptyStore
  /\ Applied("save_route_list") # {}
  /\ Applied("save_warp_list") # {}
  /\ database.explored = {1}
  /\ database.warps = {<<1, 2>>, <<1, 3>>, <<2, 3>>}

(***************************************************************************)
(* Properties of the route accumulator.  A step that reads the line l is   *)
(* one with consumed' = Append(consumed, l).                               *)
(***************************************************************************)
\* the text of a line that decodes
TextOf(line) == stripped(line).text

\* text parses as a finished route record
Parses(text) ==
  \/ ReMatch(routeListCompleteCIMRe, text).ok
  \/ ReMatch(routeListCompleteCFRe, text).ok

\* the route-save record of the route text
RouteSave(route) == Item("save_route_list", <<[route |-> route]>>)

\* C13: a blank line read while the accumulator holds a buffer leaves the
\* accumulator idle, whether the buffer parses as a finished route or not,
\* and a route-save record is put on the queue exactly when it parses
C13_BlankEndsAccumulation ==
  [][(consumed' = Append(consumed, LineBlank) /\ routeList # None) =>
       /\ routeList' = None
       /\ IF Parses(routeList)
            THEN /\ Len(put') = Len(put) + 1
                 /\ put'[Len(put')].func = "save_route_list"
            ELSE put' = put]_vars

\* a line that decodes and is neither blank nor of the continuation shape
OtherLine(line) ==
  /\ stripped(line).ok
  /\ TextOf(line) # <<>>
  /\ ~ReMatch(routeListRestRe, TextOf(line)).ok

\* C14: a line that decodes and is neither blank nor a continuation, read
\* while the accumulator holds a buffer, discards the buffer whatever report
\* the line is: the accumulator is left idle, or with that line alone when
\* the line opens a route report, so that nothing of the buffer can reach a
\* later route-save record
C14_BufferDiscarded ==
  [][\A line \in Lines :
       (consumed' = Append(consumed, line) /\ routeList # None /\ OtherLine(line))
         => routeList' \in {None, TextOf(line)}]_vars

\* the lines that are a complete route report of one line, and their routes
OneLineRoutes ==
  (LineCIM :> S(<<"1", " ", ">", " ", "2", " ", ">", " ", "3">>))
    @@ (LineCFRoute :> S(<<"1", " ", ">", " ", "2", " ", ">", " ", "3">>))

\* C15: a line that is a complete route report of one line, read in either
\* state of the accumulator, puts exactly one route-save record on the queue,
\* for the route of that line, and leaves the accumulator idle
C15_OneLineRoute ==
  [][\A line \in DOMAIN OneLineRoutes :
       consumed' = Append(consumed, line) =>
         /\ put' = Append(put, RouteSave(OneLineRoutes[line]))
         /\ routeList' = None]_vars

\* both reports of one line have been read, one of them while the
\* accumulator held the opening line of a course-plotter report
C15_Witness ==
  /\ consumed = <<LineCF, LineCIM, LineCFRoute>>
  /\ Len(put) = 2
  /\ routeList = None

\* a line that decodes, is not blank and matches none of the report
\* patterns
Unmatched(line) ==
  /\ stripped(line).ok
  /\ TextOf(line) # <<>>
  /\ \A re \in {clearFightersRe, saveFightersRe, warpListRe, portListRe,
                 planetListRe, routeListCompleteCIMRe, routeListCompleteCFRe,
                 routeListFromCIMRe, routeListFromCFRe} :
       ~ReMatch(re, TextOf(line)).ok

\* C18: a line that does not decode, in either state of the accumulator,
\* and a non-blank line of no report while the accumulator is idle, put
\* nothing on the queue and leave the accumulator as it was
C18_SkippedLine ==
  [][\A line \in Lines :
       ( /\ consumed' = Append(consumed, line)
         /\ \/ ~stripped(line).ok
            \/ routeList = None /\ Unmatched(line) )
         => put' = put /\ routeList' = routeList]_vars

\* a line that does not decode has been read while the accumulator held
\* the opening line of a report, and the accumulator still holds it
C18_Witness ==
  /\ consumed = <<LineCF, LineUndecodable>>
  /\ routeList = TextOf(LineCF)
  /\ put = <<>>

(***************************************************************************)
(* Properties of the port-pair search.                                     *)
(***************************************************************************)
\* B for S and S for B
Swap(c) ==
  IF c = Ord("B") THEN Ord("S") ELSE IF c = Ord("S") THEN Ord("B") ELSE c

\* the complement of a pattern: the letters swapped at each position
Complement(P) == [i \in 1..Len(P) |-> Swap(P[i])]

\* a class matches a pattern: a ? matches either letter
Matches(P, class) ==
  /\ Len(class) = Len(P)
  /\ \A i \in 1..Len(P) : P[i] = Ord("?") \/ P[i] = class[i]

\* C8: for every pattern P of three characters out of B, S and ?, the
\* complement the search computes is P with B and S swapped at each
\* position, computing it twice gives P again, and the complement of "?BS"
\* is "?SB"
C8_ComplementTwice ==
  pp_pc \notin {"off", "main"} =>
    /\ opposite_port_type = Complement(port_type)
    /\ opposite(opposite_port_type) = port_type
    /\ port_type = S(<<"?", "B", "S">>) =>
         opposite_port_type = S(<<"?", "S", "B">>)

C8_Witness ==
  /\ pp_pc = "load"
  /\ port_type = S(<<"?", "B", "S">>)
  /\ opposite_port_type = S(<<"?", "S", "B">>)

\* the unordered pairs {A, B} with a warp from A to B, a port at A of a
\* class that matches the pattern and a port at B of a class that matches
\* its complement
ExpectedPairs ==
  {{w[1], w[2]} :
     w \in {x \in database.warps :
              /\ x[1] \in DOMAIN database.ports
              /\ x[2] \in DOMAIN database.ports
              /\ Matches(port_type, database.ports[x[1]].class)
              /\ Matches(Complement(port_type), database.ports[x[2]].class)}}

\* C9: for every port table, warp table and pattern the candidates are
\* exactly the unordered pairs {A, B} with a port at A that matches the
\* pattern, a warp from A to B and a port at B that matches the complement,
\* and each pair is a candidate once, also when it is found from both ends
C9_CandidatesExact ==
  pp_pc \in {"report", "done"} =>
    /\ {{candidates[i][1], candidates[i][2]} : i \in 1..Len(candidates)}
         = ExpectedPairs
    /\ \A i, j \in 1..Len(candidates) :
         {candidates[i][1], candidates[i][2]}
           = {candidates[j][1], candidates[j][2]} => i = j

\* ports 1 (BBS) and 2 (SSB), the one warp 1->2, the pattern "?BS": the one
\* candidate {1, 2}
C9_Witness ==
  /\ pp_pc = "done"
  /\ port_type = S(<<"?", "B", "S">>)
  /\ DOMAIN database.ports = {1, 2}
  /\ database.ports[1].class = S(<<"B", "B", "S">>)
  /\ database.ports[2].class = S(<<"S", "S", "B">>)
  /\ database.warps = {<<1, 2>>}
  /\ candidates = <<<<1, 2>>>>

\* the percentage and the quantity of product i at the port of a sector
Figures(sector, i) ==
  CASE i = 1 -> <<database.ports[sector].ore_pct, database.ports[sector].ore_amt>>
    [] i = 2 -> <<database.ports[sector].org_pct, database.ports[sector].org_amt>>
    [] i = 3 -> <<database.ports[sector].equ_pct, database.ports[sector].equ_amt>>

\* the sum of the figures of kind n (1 percentage, 2 quantity) of the ports
\* of sectors a and b over the positions given
RECURSIVE SumOver(_, _, _, _)
SumOver(positions, a, b, n) ==
  IF positions = {} THEN 0
  ELSE LET i == CHOOSE x \in positions : TRUE
       IN  Figures(a, i)[n] + Figures(b, i)[n]
             + SumOver(positions \ {i}, a, b, n)

\* the score of a pair: <<percentage score, amount score>> over the
\* positions of the pattern that are not ?
PairScore(k) ==
  << SumOver({i \in 1..3 : port_type[i] # Ord("?")}, k[1], k[2], 1),
     SumOver({i \in 1..3 : port_type[i] # Ord("?")}, k[1], k[2], 2) >>

\* ascending lexicographic order of scores
ScoreLeq(x, y) == x[1] < y[1] \/ (x[1] = y[1] /\ x[2] <= y[2])

\* C10: the candidates are reported in ascending lexicographic order of
\* <<percentage score, amount score>>; the score the search computes for a
\* pair is the sum, over both ports, of the figures at the positions of the
\* pattern that are not ?, whichever port is taken first; every candidate
\* is reported
C10_ReportAscending ==
  pp_pc \in {"report", "done"} =>
    /\ \A i, j \in 1..Len(report) :
         i < j => ScoreLeq(PairScore(report[i]), PairScore(report[j]))
    /\ \A i \in 1..Len(candidates) :
         /\ port_score(PortOf(ports, candidates[i][1]),
                       PortOf(ports, candidates[i][2]), port_type)
              = PairScore(candidates[i])
         /\ port_score(PortOf(ports, candidates[i][2]),
                       PortOf(ports, candidates[i][1]), port_type)
              = PairScore(candidates[i])
    /\ \A i \in 1..Len(report) : \E j \in 1..Len(candidates) :
         report[i] = candidates[j]
    /\ pp_pc = "done" =>
         /\ Len(report) = Len(candidates)
         /\ \A j \in 1..Len(candidates) : \E i \in 1..Len(report) :
              report[i] = candidates[j]

\* two candidates with the same percentage score, found in the order
\* {1, 2}, {1, 3} and reported in the order of their amount scores; the
\* ports differ in the figures at the ? of the pattern
C10_Witness ==
  /\ pp_pc = "done"
  /\ port_type = S(<<"?", "B", "S">>)
  /\ candidates = <<<<1, 2>>, <<1, 3>>>>
  /\ report = <<<<1, 3>>, <<1, 2>>>>
  /\ PairScore(<<1, 2>>)[1] = PairScore(<<1, 3>>)[1]
  /\ PairScore(<<1, 3>>)[2] < PairScore(<<1, 2>>)[2]
  /\ database.ports[2].ore_amt # database.ports[3].ore_amt

(***************************************************************************)
(* Properties of the routes of the report.                                 *)
(***************************************************************************)
\* the chains of stored warps of n sectors from one of sources to target
Chains(n, target, sources, warps) ==
  {p \in [1..n -> Sectors] :
     /\ p[1] \in sources
     /\ p[n] = target
     /\ \A i \in 1..(n - 1) : <<p[i], p[i + 1]>> \in warps}

\* route is a chain of the least number of hops, or no chain exists and
\* route is the path of no sector
ShortestChain(route, target, sources, warps) ==
  /\ \A n \in 1..MaxSectors :
       (n < Len(route) \/ route = <<>>) => Chains(n, target, sources, warps) = {}
  /\ route # <<>> => route \in Chains(Len(route), target, sources, warps)

\* the report has a port of sector 3 on the store of the example: the warps
\* 1 -> 2, 2 -> 3, 1 -> 3 and the candidate sources {1, 2}
Example(i) ==
  /\ database.warps = {<<1, 2>>, <<2, 3>>, <<1, 3>>}
  /\ database.fighters = {1, 2}
  /\ printed[i].sector = 3

\* C11: a route of the report, asked for with reverse=True, is a chain of
\* stored warps from a candidate source to the target of the least hop count
\* over all candidate sources and all chains, and no path only when no
\* chain exists; with the warps 1 -> 2, 2 -> 3, 1 -> 3, the target 3 and
\* the candidates {1, 2} it is one of the one-hop paths [1, 3] and [2, 3];
\* and when the target is a candidate it is the path of the target alone
C11_RouteIsShortestChain ==
  \A i \in 1..Len(printed) :
    /\ ShortestChain(printed[i].fRoute, printed[i].sector, database.fighters,
                     database.warps)
    /\ ShortestChain(printed[i].bRoute, printed[i].sector,
                     {s \in Sectors : /\ \E w \in database.warps : w[2] = s
                                      /\ s \notin database.explored},
                     database.warps)
    /\ Example(i) => printed[i].fRoute \in {<<1, 3>>, <<2, 3>>}
    /\ printed[i].sector \in database.fighters
         => printed[i].fRoute = <<printed[i].sector>>

\* the port of the example has been reported with a one-hop route, and
\* another port with the path of no hop
C11_Witness ==
  \E i, j \in 1..Len(printed) :
    /\ Example(i)
    /\ Len(printed[i].fRoute) = 2
    /\ printed[j].fRoute = <<printed[j].sector>>

\* C11 as stated: on the example the route is [1, 3]
C11_RouteAsStated ==
  \A i \in 1..Len(printed) : Example(i) => printed[i].fRoute = <<1, 3>>

\* C12: a port is reported with "*** Direct warp available ***" if and only
\* if its sector holds a fighter; a sector no fighter can reach is not
\* reported so
C12_DirectIffFighter ==
  \A i \in 1..Len(printed) :
    printed[i].direct <=> printed[i].sector \in database.fighters

=============================================================================
